---- MODULE Spec2Model ----
(***************************************************************************)
(* Model of src/src/parser.rs: the recursive-descent parser that turns a   *)
(* token sequence into typed statements.  Every parse function is a pure   *)
(* function of (position, tokens[, scope stack]) and is modelled as an     *)
(* operator that returns one of                                            *)
(*     [tag |-> "Ok",    val |-> ..., i |-> next position ...]             *)
(*     [tag |-> "Err",   msg |-> ..., pos |-> token position]              *)
(*     [tag |-> "Panic", why |-> ...]                                      *)
(* "Err" is Rust's Err(error(msg, pos)); "Panic" is a Rust panic (index    *)
(* out of bounds, unwrap on None, todo!()).  Positions are 0-based as in   *)
(* the source; the position (TokenPos) of the k-th token is modelled as k. *)
(***************************************************************************)
EXTENDS Naturals, Sequences, FiniteSets

VARIABLES toks, i, ast, global_scope, call, result

vars == <<toks, i, ast, global_scope, call, result>>

(* ------------------------------ bounds -------------------------------- *)

MaxExprLen == 5
MaxStmts == 3
MaxRawLen == 2
MaxDepth == 5

(* ------------------------------ tokens -------------------------------- *)

Tk(kind, val) == [kind |-> kind, val |-> val]

Identifier(s) == Tk("Identifier", s)
String(s) == Tk("String", s)
Integer(s) == Tk("Integer", s)
Float(s) == Tk("Float", s)
Bool(s) == Tk("Bool", s)
Arithmetic(s) == Tk("Arithmetic", s)
Punctuation(s) == Tk("Punctuation", s)
Nested == Tk("Nested", "")

\* toks[i] of the source (0-based); callers guard i < Len(ts).
Tok(ts, k) == ts[k + 1]

\* toks[i].pos
Pos(ts, k) == k

None == [node |-> "None"]

Ok(v, j) == [tag |-> "Ok", val |-> v, i |-> j]
Err(msg, pos) == [tag |-> "Err", msg |-> msg, pos |-> pos]
Panic(why) == [tag |-> "Panic", why |-> why]

\* TokenValue::empty("identifier") of the lexer: the identifier category pattern.
EmptyPattern(kind) == Tk(kind, "")

\* TokenValue::as_string of the lexer: the payload text of a token value.
as_string(v) == v.val

(* ------------------------------ expect -------------------------------- *)

IsCategoryPattern(value) ==
    value.kind \in {"Identifier", "String", "Arithmetic", "Punctuation"}

expect(k, ts, value) ==
    IF k >= Len(ts) THEN Panic("index out of bounds")
    ELSE IF Tok(ts, k) = value THEN Ok(Tok(ts, k), k)
    ELSE IF IsCategoryPattern(value) THEN Ok(Tok(ts, k), k)
    ELSE Err("Expected", Pos(ts, k))

(* ------------------------------ scopes -------------------------------- *)

EmptyMap == [n \in {} |-> None]

EmptyScope == [variables |-> EmptyMap, functions |-> <<>>]

VariableOptions(mut, typ) == [mutable |-> mut, typ |-> typ]

enter_scope(scope) ==
    LET parent_scope == IF Len(scope) > 0 THEN scope[Len(scope)] ELSE EmptyScope
    IN  Append(scope, parent_scope)

exit_scope(scope) ==
    IF Len(scope) > 0 THEN SubSeq(scope, 1, Len(scope) - 1) ELSE scope

(* ------------------------------ types --------------------------------- *)

parse_type(tok, pos) ==
    IF tok.kind = "Identifier"
    THEN CASE tok.val = "int" -> Ok("Integer", pos)
           [] tok.val = "str" -> Ok("String", pos)
           [] tok.val = "float" -> Ok("Float", pos)
           [] tok.val = "bool" -> Ok("Bool", pos)
           [] OTHER -> Err("Unknown type", pos)
    ELSE Err("Expected an identifier while parsing type", pos)

(* --------------------------- expression nodes ------------------------- *)

PrimaryExpression(value, typ, nested) ==
    [node |-> "Primary", value |-> value, typ |-> typ, nested |-> nested]

UnaryExpression(left, typ, op) ==
    [node |-> "Unary", left |-> left, typ |-> typ, op |-> op]

TermExpression(left, right, typ, op) ==
    [node |-> "Term", left |-> left, right |-> right, typ |-> typ, op |-> op]

ComparisonExpression(left, right, typ, op) ==
    [node |-> "Comparison", left |-> left, right |-> right, typ |-> typ, op |-> op]

BinaryExpression(left, right, typ, op) ==
    [node |-> "Binary", left |-> left, right |-> right, typ |-> typ, op |-> op]

\* Expression { kind, typ }: kind is ExpressionKind::Comparison(c) or ::Binary(b).
Expression(kind, typ) == [node |-> "Expression", kind |-> kind, typ |-> typ]

IsTermOp(t) == t \in {Arithmetic("*"), Arithmetic("/"), Arithmetic("%")}

IsComparisonOp(t) ==
    t \in {Arithmetic("=="), Arithmetic("!="), Arithmetic(">="),
           Arithmetic("<="), Arithmetic(">"), Arithmetic("<")}

IsAdditiveOp(t) == t \in {Arithmetic("+"), Arithmetic("-")}

(* --------------------------- expression parser ------------------------ *)

\* Rust's ? operator: an Err (or a panic) of r leaves the function at once,
\* otherwise the function goes on with r.  (r is evaluated once, as the one
\* element v of {r}.)
Try(r, K(_)) ==
    CHOOSE out \in {IF v.tag = "Ok" THEN K(v) ELSE v : v \in {r}} : TRUE

\* Err(error(msg, toks[k].pos)): indexing toks[k] past the end panics.
ErrAt(msg, ts, k) ==
    IF k >= Len(ts) THEN Panic("index out of bounds") ELSE Err(msg, Pos(ts, k))

RECURSIVE parse_expression(_, _)
RECURSIVE parse_unary_expression(_, _)
RECURSIVE term_loop(_, _, _, _)
RECURSIVE comparison_loop(_, _, _, _)
RECURSIVE expression_loop(_, _, _, _)

parse_primary_expression(k, ts) ==
    IF k >= Len(ts) THEN Panic("index out of bounds")
    ELSE
    LET t == Tok(ts, k) IN
    CASE t.kind = "String" -> Ok(PrimaryExpression(t, "String", None), k + 1)
      [] t.kind = "Integer" -> Ok(PrimaryExpression(t, "Integer", None), k + 1)
      [] t.kind = "Float" -> Ok(PrimaryExpression(t, "Float", None), k + 1)
      [] t.kind = "Bool" -> Ok(PrimaryExpression(t, "Bool", None), k + 1)
      [] t = Punctuation("(") ->
            Try(parse_expression(k + 1, ts), LAMBDA e :
            Try(expect(e.i, ts, Punctuation(")")), LAMBDA c :
            Ok(PrimaryExpression(Nested, e.val.typ, e.val), e.i + 1)))
      [] t.kind = "Identifier" -> Panic("not yet implemented")
      [] OTHER -> Err("Unexpected token found while parsing primary expression",
                      Pos(ts, k))

parse_unary_expression(k, ts) ==
    IF k >= Len(ts) THEN Panic("index out of bounds")
    ELSE
    LET t == Tok(ts, k) IN
    IF t = Arithmetic("-") \/ t = Arithmetic("+")
    THEN Try(parse_unary_expression(k + 1, ts), LAMBDA right :
         Ok(UnaryExpression(
                PrimaryExpression(right.val.left.value, right.val.left.typ,
                                  right.val.left.nested),
                right.val.typ, t), right.i))
    ELSE Try(parse_primary_expression(k, ts), LAMBDA left :
         Ok(UnaryExpression(left.val, left.val.typ, None), left.i))

\* The while loop of parse_term_expression and the code after it; expr is the
\* Option<TermExpression> accumulator, None before the first iteration.
term_loop(k, ts, left, expr) ==
    LET finish == IF expr.node = "None"
                  THEN Ok(TermExpression(left, None, left.typ, None), k)
                  ELSE Ok(expr, k)
    IN
    IF ~(k < Len(ts) /\ IsTermOp(Tok(ts, k))) THEN finish
    ELSE IF k + 1 >= Len(ts) THEN Panic("index out of bounds")
    ELSE IF Tok(ts, k + 1) = Punctuation(";") THEN finish
    ELSE
    Try(expect(k, ts, Arithmetic("")), LAMBDA op :
    Try(parse_unary_expression(k + 1, ts), LAMBDA right :
    IF left.typ # right.val.typ THEN ErrAt("Type mismatch", ts, right.i)
    ELSE IF expr.node = "None" THEN Panic("unwrap on None")
    ELSE term_loop(right.i, ts, left,
                   TermExpression(left, right.val, expr.typ, op.val))))

parse_term_expression(k, ts) ==
    Try(parse_unary_expression(k, ts), LAMBDA left :
    term_loop(left.i, ts, left.val, None))

\* The while loop of parse_comparison_expression and the code after it.
comparison_loop(k, ts, left, expr) ==
    LET finish == IF expr.node = "None"
                  THEN Ok(ComparisonExpression(left, None, left.typ, None), k)
                  ELSE Ok(expr, k)
    IN
    IF ~(k < Len(ts) /\ IsComparisonOp(Tok(ts, k))) THEN finish
    ELSE IF k + 1 >= Len(ts) THEN Panic("index out of bounds")
    ELSE IF Tok(ts, k + 1) = Punctuation(";") THEN finish
    ELSE
    Try(expect(k, ts, Arithmetic("")), LAMBDA op :
    Try(parse_term_expression(k + 1, ts), LAMBDA right :
    IF left.typ # right.val.typ THEN ErrAt("Type mismatch", ts, right.i)
    ELSE IF expr.node = "None" THEN Panic("unwrap on None")
    ELSE comparison_loop(right.i, ts, left,
             ComparisonExpression(left, right.val, expr.typ, op.val))))

parse_comparison_expression(k, ts) ==
    Try(parse_term_expression(k, ts), LAMBDA left :
    comparison_loop(left.i, ts, left.val, None))

\* The while loop of parse_expression and the code after it; expr is the
\* Option<Expression> accumulator.
expression_loop(k, ts, left, expr) ==
    IF k < Len(ts) /\ Tok(ts, k) = Punctuation("(")
    THEN Try(parse_expression(k + 1, ts), LAMBDA nested_expr :
         Try(expect(nested_expr.i, ts, Punctuation(")")), LAMBDA c :
         expression_loop(nested_expr.i + 1, ts, left, nested_expr.val)))
    ELSE IF k < Len(ts) /\ IsAdditiveOp(Tok(ts, k))
    THEN Try(expect(k, ts, Arithmetic("")), LAMBDA op :
         Try(parse_comparison_expression(k + 1, ts), LAMBDA right :
         IF left.typ # right.val.typ THEN ErrAt("Type mismatch", ts, right.i)
         ELSE expression_loop(right.i, ts, left,
                 Expression(BinaryExpression(left, right.val, left.typ, op.val),
                            left.typ))))
    ELSE IF expr.node = "None" THEN Ok(Expression(left, left.typ), k)
    ELSE Ok(expr, k)

parse_expression(k, ts) ==
    Try(parse_comparison_expression(k, ts), LAMBDA left :
    expression_loop(left.i, ts, left.val, None))

(* --------------------------- statement parser ------------------------- *)

OkS(stmt, j, scope) == [tag |-> "Ok", val |-> stmt, i |-> j, scope |-> scope]

VariableDeclaration(name, typ, expr, pos) ==
    [kind |-> "VariableDeclaration", name |-> name, typ |-> typ,
     expr |-> expr, pos |-> pos]

ExpressionStatement(typ, expr, pos) ==
    [kind |-> "ExpressionStatement", typ |-> typ, expr |-> expr, pos |-> pos]

\* HashMap::insert on the variables of the last scope of the stack.
InsertVariable(scope, name, opts) ==
    LET top == scope[Len(scope)]
        m == top.variables
        m2 == [n \in DOMAIN m \cup {name} |-> IF n = name THEN opts ELSE m[n]]
    IN  [scope EXCEPT ![Len(scope)] = [top EXCEPT !.variables = m2]]

parse_function_declaration(k, ts, scope) ==
    Try(expect(k + 1, ts, EmptyPattern("Identifier")), LAMBDA name :
    Try(expect(k + 2, ts, Punctuation("(")), LAMBDA p :
    Panic("not yet implemented")))

parse_variable_declaration(k, ts, scope) ==
    Try(expect(k + 1, ts, EmptyPattern("Identifier")), LAMBDA nm :
    IF Len(scope) = 0 THEN Panic("unwrap on None")
    ELSE IF as_string(nm.val) \in DOMAIN scope[Len(scope)].variables
    THEN Err("Variable already declared", Pos(ts, k + 1))
    ELSE
    Try(expect(k + 2, ts, Punctuation(":")), LAMBDA colon :
    Try(expect(k + 3, ts, EmptyPattern("Identifier")), LAMBDA type_ident :
    Try(parse_type(type_ident.val, Pos(ts, k + 3)), LAMBDA typ :
    Try(expect(k + 4, ts, Punctuation("=")), LAMBDA eq :
    Try(parse_expression(k + 5, ts), LAMBDA e :
    IF typ.val # e.val.typ THEN Err("Type mismatch", Pos(ts, k + 5))
    ELSE
    Try(expect(e.i, ts, Punctuation(";")), LAMBDA semi :
    OkS(VariableDeclaration(as_string(nm.val), typ.val, e.val, Pos(ts, e.i)),
        e.i + 1,
        InsertVariable(scope, as_string(nm.val),
                       VariableOptions(FALSE, typ.val))))))))))

\* parse_expression_statement returning the position it started at.
parse_expression_statement_no_advance(k, ts, scope) ==
    Try(parse_expression(k, ts), LAMBDA e :
    Try(expect(e.i, ts, Punctuation(";")), LAMBDA semi :
    OkS(ExpressionStatement(e.val.typ, e.val, Pos(ts, e.i)), k, scope)))

parse_expression_statement(k, ts, scope) ==
    Try(parse_expression(k, ts), LAMBDA e :
    Try(expect(e.i, ts, Punctuation(";")), LAMBDA semi :
    OkS(ExpressionStatement(e.val.typ, e.val, Pos(ts, e.i)), e.i, scope)))

parse_identifier(k, ts, scope) ==
    LET t == Tok(ts, k) IN
    IF t.kind = "Identifier"
    THEN CASE t.val = "fn" -> parse_function_declaration(k, ts, scope)
           [] t.val = "let" -> parse_variable_declaration(k, ts, scope)
           [] OTHER -> Err("Unknown identifier", Pos(ts, k))
    ELSE Err("Expected an identifier while parsing identifier", Pos(ts, k))

parse_statement(k, ts, scope) ==
    IF k >= Len(ts) THEN Panic("index out of bounds")
    ELSE IF Tok(ts, k).kind = "Identifier" THEN parse_identifier(k, ts, scope)
    ELSE parse_expression_statement(k, ts, scope)

(* ------------------------------ inputs -------------------------------- *)

Names == {"x", "y"}

TypeNames == {"int", "str"}

TypedExprs ==
    { [toks |-> <<Integer("1")>>, typ |-> "int"],
      [toks |-> <<String("a")>>, typ |-> "str"],
      [toks |-> <<Integer("1"), Arithmetic("+"), Integer("2")>>, typ |-> "int"],
      [toks |-> <<Integer("2"), Arithmetic("*"), Integer("3")>>, typ |-> "int"] }

LetStmt(n, t, e) ==
    <<Identifier("let"), Identifier(n), Punctuation(":"), Identifier(t),
      Punctuation("=")>> \o e \o <<Punctuation(";")>>

ExprStmt(e) == e \o <<Punctuation(";")>>

\* let NAME : T = E ;  with E of type T, and  E ;
WellTypedStmts ==
    {LetStmt(n, e.typ, e.toks) : n \in Names, e \in TypedExprs}
        \cup {ExprStmt(e.toks) : e \in TypedExprs}

\* let x : T = E ;  with E of another type than T (the name plays no part in
\* the type check, so one name is enough)
IllTypedStmts ==
    UNION {{LetStmt("x", t, e.toks) : t \in TypeNames \ {e.typ}}
              : e \in TypedExprs}

RECURSIVE Concats(_, _)
Concats(S, n) ==
    IF n = 0 THEN {<<>>}
    ELSE LET P == Concats(S, n - 1) IN P \cup {p \o s : p \in P, s \in S}

Prefixes(S) == UNION {{SubSeq(p, 1, k) : k \in 0..Len(p)} : p \in S}

RawAlphabet ==
    {Identifier("let"), Identifier("fn"), Identifier("x"), Identifier("int"),
     Punctuation(":"), Punctuation("="), Punctuation(";"), Punctuation("("),
     Punctuation(")"), Integer("1"), String("a"), Float("1.5"), Bool("true"),
     Arithmetic("+"), Arithmetic("*"), Arithmetic("<")}

RECURSIVE SeqsUpTo(_, _)
SeqsUpTo(A, n) ==
    IF n = 0 THEN {<<>>}
    ELSE LET P == SeqsUpTo(A, n - 1) IN P \cup {Append(p, a) : p \in P, a \in A}

Stmts == WellTypedStmts \cup IllTypedStmts

\* Every proper, non-empty prefix of a well-typed statement.
TruncatedStmts == Prefixes(WellTypedStmts) \ (Stmts \cup {<<>>})

(* ------------------------------ parse --------------------------------- *)

Running == [tag |-> "Running"]

\* Which function was entered, and the pattern handed to expect (Nested for
\* the functions that take none).
Call(fn, value) == [fn |-> fn, value |-> value]

NoCall == Call("none", Nested)

Init ==
    \* programs of up to MaxStmts statements, every truncation of one
    \* statement, and every short token sequence
    /\ toks \in Concats(Stmts, MaxStmts) \cup TruncatedStmts
                   \cup SeqsUpTo(RawAlphabet, MaxRawLen)
    /\ i = 0
    /\ ast = <<>>
    /\ global_scope = <<EmptyScope>>
    /\ call = Call("parse", Nested)
    /\ result = Running

\* One iteration of the while loop of parse whose parse_statement returned Ok.
StatementParsed ==
    /\ call = Call("parse", Nested) /\ result = Running
    /\ i < Len(toks)
    /\ \E r \in {parse_statement(i, toks, global_scope)} :
       /\ r.tag = "Ok"
       /\ global_scope' = r.scope
       /\ ast' = Append(ast, r.val)
       /\ i' = r.i
    /\ UNCHANGED <<toks, call, result>>

\* One iteration whose parse_statement returned Err (propagated by ?) or panicked.
StatementFailed ==
    /\ call = Call("parse", Nested) /\ result = Running
    /\ i < Len(toks)
    /\ \E r \in {parse_statement(i, toks, global_scope)} :
       /\ r.tag # "Ok"
       /\ result' = r
    /\ UNCHANGED <<toks, i, ast, global_scope, call>>

\* The loop condition fails: Ok(ast).
ParseReturn ==
    /\ call = Call("parse", Nested) /\ result = Running
    /\ ~(i < Len(toks))
    /\ result' = [tag |-> "Ok", val |-> ast]
    /\ UNCHANGED <<toks, i, ast, global_scope, call>>

Next == StatementParsed \/ StatementFailed \/ ParseReturn

Spec == Init /\ [][Next]_vars

FairSpec == Spec /\ WF_vars(Next)

(* ---------------- parse_expression applied to a token sequence -------- *)

ExprAlphabet ==
    {Integer("1"), Integer("2"), String("a"), Arithmetic("+"), Arithmetic("-"),
     Arithmetic("*"), Arithmetic("<"), Punctuation("("), Punctuation(")"),
     Punctuation(";")}

InitExpr ==
    /\ toks \in SeqsUpTo(ExprAlphabet, MaxExprLen) \ {<<>>}
    /\ i = 0
    /\ ast = <<>>
    /\ global_scope = <<EmptyScope>>
    /\ call = NoCall
    /\ result = Running

CallParseExpression ==
    /\ call = NoCall
    /\ call' = Call("parse_expression", Nested)
    /\ result' = parse_expression(i, toks)
    /\ UNCHANGED <<toks, i, ast, global_scope>>

CallParseTermExpression ==
    /\ call = NoCall
    /\ call' = Call("parse_term_expression", Nested)
    /\ result' = parse_term_expression(i, toks)
    /\ UNCHANGED <<toks, i, ast, global_scope>>

NextExpr == CallParseExpression \/ CallParseTermExpression

SpecExpr == InitExpr /\ [][NextExpr]_vars

(* ---------------------- expect applied to a position ------------------ *)

Patterns ==
    {Identifier(""), String(""), Arithmetic(""),
     Punctuation(":"), Punctuation("="), Punctuation(")"), Punctuation(";"),
     Integer("1"), Bool("true")}

InitExpect ==
    /\ toks \in SeqsUpTo(RawAlphabet, MaxRawLen)
    /\ i \in 0..MaxRawLen
    /\ ast = <<>>
    /\ global_scope = <<EmptyScope>>
    /\ call = NoCall
    /\ result = Running

CallExpect ==
    /\ call = NoCall
    /\ \E value \in Patterns :
          /\ call' = Call("expect", value)
          /\ result' = expect(i, toks, value)
    /\ UNCHANGED <<toks, i, ast, global_scope>>

NextExpect == CallExpect

SpecExpect == InitExpect /\ [][NextExpect]_vars

(* ------------------- enter_scope and exit_scope calls ----------------- *)

ValueTypes == {"Integer", "Float", "String", "Bool"}

\* The variables of a global scope after some successful declarations.
VariableMaps ==
    UNION {[D -> {VariableOptions(FALSE, t) : t \in ValueTypes}]
              : D \in SUBSET Names}

InitScope ==
    /\ toks = <<>>
    /\ i = 0
    /\ ast = <<>>
    /\ global_scope \in {<<[variables |-> m, functions |-> <<>>]>>
                             : m \in VariableMaps}
    /\ call = NoCall
    /\ result = Running

EnterScope ==
    /\ Len(global_scope) < MaxDepth
    /\ global_scope' = enter_scope(global_scope)
    /\ call' = Call("enter_scope", Nested)
    /\ result' = [tag |-> "Ok", val |-> enter_scope(global_scope)]
    /\ UNCHANGED <<toks, i, ast>>

ExitScope ==
    /\ global_scope' = exit_scope(global_scope)
    /\ call' = Call("exit_scope", Nested)
    /\ result' = [tag |-> "Ok", val |-> exit_scope(global_scope)]
    /\ UNCHANGED <<toks, i, ast>>

NextScope == EnterScope \/ ExitScope

SpecScope == InitScope /\ [][NextScope]_vars

(* ============================== claims ================================ *)

IsLiteral(t) == t.kind \in {"Integer", "Float", "String", "Bool"}

\* The ValueType of a literal token: the token kinds carry the types' names.
LiteralType(t) == t.kind

IsBinaryOp(t) == IsTermOp(t) \/ IsComparisonOp(t) \/ IsAdditiveOp(t)

\* ts is exactly n tokens, or n tokens and a terminating ;
EndsAfter(ts, n) ==
    \/ Len(ts) = n
    \/ Len(ts) = n + 1 /\ ts[n + 1] = Punctuation(";")

\* The literal tokens of an expression tree, left to right.
RECURSIVE Leaves(_)
Leaves(n) ==
    CASE n.node = "None" -> <<>>
      [] n.node = "Primary" ->
            IF n.nested.node = "None" THEN <<n.value>> ELSE Leaves(n.nested)
      [] n.node = "Unary" -> Leaves(n.left)
      [] n.node = "Expression" -> Leaves(n.kind)
      [] OTHER -> Leaves(n.left) \o Leaves(n.right)

TypeOfName(t) == IF t = "int" THEN "Integer" ELSE "String"

\* The positions of the let keywords whose name an earlier let declared.
Redeclared(ts) ==
    {k \in 0..(Len(ts) - 2) :
        /\ Tok(ts, k) = Identifier("let")
        /\ \E j \in 0..(k - 1) :
              Tok(ts, j) = Identifier("let") /\ Tok(ts, j + 1) = Tok(ts, k + 1)}

FirstRedeclared(ts) ==
    CHOOSE k \in Redeclared(ts) : \A j \in Redeclared(ts) : k <= j

WellTypedPrograms == Concats(WellTypedStmts, MaxStmts)

NumStatements(ts) == Cardinality({k \in 1..Len(ts) : ts[k] = Punctuation(";")})

DeclaredNames(stmts) ==
    {k \in 1..Len(stmts) : stmts[k].kind = "VariableDeclaration"}

\* C1: parse_expression on `a OP b` with literals a, b of different types
\* returns the error "Type mismatch" whose position is that of b (token 2),
\* and does not panic.
C1_TypeMismatchAtRightOperand ==
    ( /\ call.fn = "parse_expression"
      /\ EndsAfter(toks, 3)
      /\ IsLiteral(toks[1]) /\ IsBinaryOp(toks[2]) /\ IsLiteral(toks[3])
      /\ LiteralType(toks[1]) # LiteralType(toks[3]) )
    => ( /\ result.tag = "Err"
         /\ result.msg = "Type mismatch"
         /\ result.pos = 2 )

\* C2: parse_expression on `a op1 b op2 c` (op1, op2 additive, literals of one
\* type) returns a binary node with operator op2, right operand c and left
\* operand the node for `a op1 b`, so that a, b and c all are in the tree.
C2_AdditiveLeftAssociative ==
    ( /\ call.fn = "parse_expression"
      /\ EndsAfter(toks, 5)
      /\ IsLiteral(toks[1]) /\ IsLiteral(toks[3]) /\ IsLiteral(toks[5])
      /\ IsAdditiveOp(toks[2]) /\ IsAdditiveOp(toks[4])
      /\ LiteralType(toks[1]) = LiteralType(toks[3])
      /\ LiteralType(toks[3]) = LiteralType(toks[5]) )
    => ( /\ result.tag = "Ok"
         /\ result.val.kind.node = "Binary"
         /\ result.val.kind.op = toks[4]
         /\ Leaves(result.val.kind.right) = <<toks[5]>>
         /\ Leaves(result.val.kind.left) = <<toks[1], toks[3]>> )

\* C3: parse_expression on `a + b * c` (additive operator, then term operator,
\* literals of one type) succeeds with an additive node whose right operand is
\* the Term node for `b * c`, of the operands' type.
C3_TermBindsTighter ==
    ( /\ call.fn = "parse_expression"
      /\ EndsAfter(toks, 5)
      /\ IsLiteral(toks[1]) /\ IsLiteral(toks[3]) /\ IsLiteral(toks[5])
      /\ IsAdditiveOp(toks[2]) /\ IsTermOp(toks[4])
      /\ LiteralType(toks[1]) = LiteralType(toks[3])
      /\ LiteralType(toks[3]) = LiteralType(toks[5]) )
    => ( /\ result.tag = "Ok"
         /\ result.val.kind.node = "Binary"
         /\ result.val.kind.op = toks[2]
         /\ result.val.kind.right.left.node = "Term"
         /\ result.val.kind.right.left.op = toks[4]
         /\ result.val.kind.right.left.typ = LiteralType(toks[1])
         /\ Leaves(result.val.kind.right) = <<toks[3], toks[5]>> )

\* C4: parse on a proper, non-empty prefix of a well-formed statement returns
\* the error "Unexpected end of file" (it does not panic).
C4_TruncatedInputIsAnError ==
    (call.fn = "parse" /\ result.tag # "Running" /\ toks \in TruncatedStmts)
    => (result.tag = "Err" /\ result.msg = "Unexpected end of file")

\* C5: parse on well-formed statements among which a let declares a name that
\* an earlier let declared returns the error "Variable already declared" at
\* the second name token; and no name has two declarations in the statement
\* list.
C5_RedeclarationIsReported ==
    /\ ( /\ call.fn = "parse" /\ result.tag # "Running"
         /\ toks \in WellTypedPrograms
         /\ Redeclared(toks) # {} )
       => ( /\ result.tag = "Err"
            /\ result.msg = "Variable already declared"
            /\ result.pos = FirstRedeclared(toks) + 1 )
    /\ call.fn = "parse"
       => \A a, b \in DeclaredNames(ast) : ast[a].name = ast[b].name => a = b

\* C6: parse on n well-formed statements (no name declared twice) returns n
\* statements, and after each statement the position is just past its ;
C6_EveryStatementIsParsed ==
    ( /\ call.fn = "parse"
      /\ toks \in WellTypedPrograms
      /\ Redeclared(toks) = {} )
    => ( /\ (result.tag = "Running" /\ i > 0)
            => Tok(toks, i - 1) = Punctuation(";")
         /\ result.tag # "Running"
            => (result.tag = "Ok" /\ Len(result.val) = NumStatements(toks)) )

\* C7: parse on the single declaration `let NAME : T = E ;` returns the error
\* "Type mismatch" and records nothing when the type of E is not T, and
\* succeeds with NAME recorded with type T in the scope when it is.
C7_DeclaredTypeIsChecked ==
    ( /\ call.fn = "parse" /\ result.tag # "Running"
      /\ toks \in Stmts
      /\ toks[1] = Identifier("let") )
    => IF toks \in WellTypedStmts
       THEN /\ result.tag = "Ok"
            /\ toks[2].val \in DOMAIN global_scope[1].variables
            /\ global_scope[1].variables[toks[2].val].typ
                  = TypeOfName(toks[4].val)
       ELSE /\ result.tag = "Err"
            /\ result.msg = "Type mismatch"
            /\ global_scope[1].variables = EmptyMap

\* C8: expect at a position inside the stream succeeds exactly when the token
\* has the category of a category pattern, or equals any other pattern, and
\* fails with an error at the token's position otherwise.
C8_ExpectMatchesThePattern ==
    (call.fn = "expect" /\ i < Len(toks))
    => ( /\ result.tag = "Ok"
            <=> IF IsCategoryPattern(call.value)
                THEN Tok(toks, i).kind = call.value.kind
                ELSE Tok(toks, i) = call.value
         /\ result.tag # "Ok" => (result.tag = "Err" /\ result.pos = Pos(toks, i)) )

\* C9: after any calls of enter_scope and exit_scope the scope stack holds at
\* least one scope.
C9_ScopeStackNeverEmpty == Len(global_scope) >= 1

\* C10: every loop iteration of parse whose parse_statement succeeded moves
\* the position strictly forward and never past the end, so the number of
\* statements parsed never exceeds the position, and parse eventually stops.
C10_ParseAdvancesAndStops ==
    /\ [][ast' # ast =>
             (i' > i /\ i' <= Len(toks) /\ Len(ast') = Len(ast) + 1
                /\ Len(ast') <= i')]_vars
    /\ <>(result.tag # "Running")

\* Two statements were parsed, each moving the position, and parse returned.
C10_Witness ==
    /\ call.fn = "parse"
    /\ result.tag = "Ok"
    /\ Len(ast) = 2
    /\ ast[1].kind = "VariableDeclaration"
    /\ i = Len(toks)

====
